---- MODULE Spec2Model ----
(***************************************************************************)
(* Status derivation for one patient session (patient x programme x        *)
(* session) of the vaccinations-in-schools prototype.                      *)
(*                                                                         *)
(* The state is the part of the in-memory repository (request.session.data)*)
(* that the derivations of PatientSession read: the patient's replies for  *)
(* the programme, the patient's audit events that carry a triage outcome   *)
(* for the programme, the patient's vaccinations for the programme, the    *)
(* session's register entry for the patient and the patient session's      *)
(* `alternative` flag; and of the session itself its closed flag and its   *)
(* dates, with the clock they are compared against.                        *)
(* Of the application-wide locals it holds the reply the reply wizard is   *)
(* to mark invalid and the signed-in account's vaccine methods.            *)
(*                                                                         *)
(* Enumeration members are written by their key.  The sources spell one    *)
(* reply decision OnlyAlternative / OnlyAlternativeInjection and one       *)
(* consent outcome GivenForAlternativeOnly / GivenForAlternativeInjection; *)
(* each pair is one member here, under the spelling of the enumeration.    *)
(***************************************************************************)
EXTENDS Integers, Sequences, FiniteSets, TLC

VARIABLES
  replies,            \* the patient's replies for the programme, in the order added
  events,             \* the patient's audit events with an outcome, in the order added
  vaccinations,       \* the patient's vaccinations for the programme, in the order added
  register,           \* session.register[patient.uuid]
  alternative,        \* patientSession.alternative
  alternativeVaccine, \* the programme has an alternative vaccine
  registration,       \* session.registration
  sessionFound,       \* patientSession.session_id resolves to a session
  closed,             \* session.closed
  dates,              \* session.dates
  now,                \* the current date and time
  invalidUuid,        \* request.app.locals.invalidUuid: a reply (its index), 0 when not set
  wizard,             \* the replies for which a replacement is in the reply wizard
  account,            \* request.app.locals.account: role and vaccineMethods
  permitted,          \* the vaccine methods the account had when the user signed in
  options             \* response.locals.options of the patient session last read

\* the session's own state and the clock
sessionVars == <<sessionFound, closed, dates, now>>

\* the reply wizard and the application-wide locals
wizardVars == <<invalidUuid, wizard>>

\* the signed-in user and what the patient session page offers
accountVars == <<account, permitted, options>>

vars == <<replies, events, vaccinations, register, alternative,
          alternativeVaccine, registration, sessionVars, wizardVars, accountVars>>

(***************************************************************************)
(* Bounds                                                                  *)
(***************************************************************************)
MaxReplies == 2

MaxEvents == 2

MaxVaccinations == 2

MaxDates == 2

MaxDay == 3

(***************************************************************************)
(* Enumerations                                                            *)
(***************************************************************************)
ReplyDecision ==
  {"NoResponse", "Given", "OnlyAlternativeInjection", "OnlyMenACWY", "OnlyTdIPV",
   "Declined", "Refused"}

ParentalRelationship == {"Mum", "Dad", "Guardian", "Fosterer", "Other", "Unknown"}

NoParent == "NoParent"

ScreenOutcome ==
  {"Vaccinate", "VaccinateAlternativeInjection", "VaccinateIntranasal",
   "NeedsTriage", "DelayVaccination", "DoNotVaccinate"}

VaccinationOutcome ==
  {"Vaccinated", "PartVaccinated", "AlreadyVaccinated", "Contraindications",
   "Refused", "Absent", "Unwell"}

NoAnswer == "NoAnswer"

NoHealthAnswers == << >>

(***************************************************************************)
(* Reply                                                                   *)
(***************************************************************************)

\* Reply.constructor: given
ReplyGiven(r) ==
  r.decision \in {"Given", "OnlyAlternativeInjection", "OnlyMenACWY", "OnlyTdIPV"}

\* Reply.constructor: declined
ReplyDeclined(r) == r.decision = "Declined"

\* Reply.constructor: a reply with no response is never shown as invalid
ReplyInvalid(r) == IF r.decision = "NoResponse" THEN FALSE ELSE r.invalid

\* Reply.constructor: health answers are kept for consenting replies only
ReplyHealthAnswers(r) ==
  IF ReplyGiven(r) THEN r.healthAnswers ELSE NoHealthAnswers

\* Reply.delivered
ReplyDelivered(r) == IF r.method # "Website" THEN TRUE ELSE r.notified

\* Reply.relationship
ReplyRelationship(r) ==
  IF r.parent # NoParent THEN r.parent ELSE "Child (Gillick competent)"

(***************************************************************************)
(* PatientSession.replies: newest first, stable                            *)
(***************************************************************************)
RECURSIVE InsertByCreatedAt(_, _)
InsertByCreatedAt(x, s) ==
  IF s = << >> THEN << x >>
  ELSE IF Head(s).createdAt >= x.createdAt
       THEN << Head(s) >> \o InsertByCreatedAt(x, Tail(s))
       ELSE << x >> \o s

RECURSIVE SortByCreatedAtDesc(_)
SortByCreatedAtDesc(s) ==
  IF s = << >> THEN << >>
  ELSE InsertByCreatedAt(s[Len(s)], SortByCreatedAtDesc(SubSeq(s, 1, Len(s) - 1)))

PatientSessionReplies(rs) == SortByCreatedAtDesc(rs)

\* PatientSession.responses
Responses(rs) == SelectSeq(PatientSessionReplies(rs), ReplyDelivered)

(***************************************************************************)
(* Consent                                                                 *)
(***************************************************************************)
\* a refusal never taken as final
getConfirmedConsentOutcome_NeverFinal(r, offersAlternativeVaccine) ==
  IF r.decision = "NoResponse" THEN "NoResponse"
  ELSE IF ReplyGiven(r)
       THEN IF offersAlternativeVaccine /\ r.decision = "OnlyAlternativeInjection"
            THEN "GivenForAlternativeInjection"
            ELSE "Given"
  ELSE r.decision

\* getConfirmedConsentOutcome
getConfirmedConsentOutcome(r, offersAlternativeVaccine) ==
  IF r.decision = "NoResponse" THEN "NoResponse"
  ELSE IF r.decision = "Refused" /\ r.confirmed THEN "FinalRefusal"
  ELSE IF ReplyGiven(r)
       THEN IF offersAlternativeVaccine /\ r.decision = "OnlyAlternativeInjection"
            THEN "GivenForAlternativeInjection"
            ELSE "Given"
  ELSE r.decision

\* _.uniqBy(replies, 'decision'): the first reply of each decision
UniqByDecision(s) ==
  LET Keep(i) == \A j \in 1..(i - 1) : s[j].decision # s[i].decision
      idx == {i \in 1..Len(s) : Keep(i)}
      RECURSIVE Pick(_)
      Pick(i) == IF i > Len(s) THEN << >>
                 ELSE IF i \in idx THEN << s[i] >> \o Pick(i + 1)
                 ELSE Pick(i + 1)
  IN Pick(1)

\* Array.prototype.find: index of the first element satisfying P, 0 if none
FirstIndex(s, P(_)) ==
  IF \E i \in 1..Len(s) : P(s[i])
  THEN CHOOSE i \in 1..Len(s) : P(s[i]) /\ \A j \in 1..(i - 1) : ~P(s[j])
  ELSE 0

IsChildReply(r) == ReplyRelationship(r) \notin ParentalRelationship

NotInvalid(r) == ~ReplyInvalid(r)

\* getConsentOutcome without the precedence of the child's reply
getConsentOutcome_NoChildPrecedence(rs, offersAlternativeVaccine) ==
  LET valid == SelectSeq(PatientSessionReplies(rs), NotInvalid)
      delivered == SelectSeq(valid, ReplyDelivered)
      decisions == UniqByDecision(delivered)
  IN IF Len(valid) = 1
     THEN IF ~ReplyDelivered(valid[1]) THEN "NoRequest"
          ELSE getConfirmedConsentOutcome(valid[1], offersAlternativeVaccine)
     ELSE IF Len(valid) > 1
     THEN IF Len(delivered) = 0 THEN "NoRequest"
          ELSE IF Len(decisions) > 1
          THEN IF \E i \in 1..Len(decisions) : ReplyDeclined(decisions[i])
               THEN "Declined"
               ELSE "Inconsistent"
          ELSE getConfirmedConsentOutcome(decisions[1], offersAlternativeVaccine)
     ELSE "NoResponse"

\* getConsentOutcome taking the newest of conflicting replies
getConsentOutcome_NewestWins(rs, offersAlternativeVaccine) ==
  LET valid == SelectSeq(PatientSessionReplies(rs), NotInvalid)
      delivered == SelectSeq(valid, ReplyDelivered)
      decisions == UniqByDecision(delivered)
      child == FirstIndex(delivered, IsChildReply)
  IN IF Len(valid) = 1
     THEN IF ~ReplyDelivered(valid[1]) THEN "NoRequest"
          ELSE getConfirmedConsentOutcome(valid[1], offersAlternativeVaccine)
     ELSE IF Len(valid) > 1
     THEN IF Len(delivered) = 0 THEN "NoRequest"
          ELSE IF Len(decisions) > 1
          THEN IF child # 0
               THEN getConfirmedConsentOutcome(delivered[child], offersAlternativeVaccine)
               ELSE IF \E i \in 1..Len(decisions) : ReplyDeclined(decisions[i])
               THEN "Declined"
               ELSE getConfirmedConsentOutcome(decisions[1], offersAlternativeVaccine)
          ELSE getConfirmedConsentOutcome(decisions[1], offersAlternativeVaccine)
     ELSE "NoResponse"

\* getConsentOutcome without the precedence of a follow-up request
getConsentOutcome_NoDeclined(rs, offersAlternativeVaccine) ==
  LET valid == SelectSeq(PatientSessionReplies(rs), NotInvalid)
      delivered == SelectSeq(valid, ReplyDelivered)
      decisions == UniqByDecision(delivered)
      child == FirstIndex(delivered, IsChildReply)
  IN IF Len(valid) = 1
     THEN IF ~ReplyDelivered(valid[1]) THEN "NoRequest"
          ELSE getConfirmedConsentOutcome(valid[1], offersAlternativeVaccine)
     ELSE IF Len(valid) > 1
     THEN IF Len(delivered) = 0 THEN "NoRequest"
          ELSE IF Len(decisions) > 1
          THEN IF child # 0
               THEN getConfirmedConsentOutcome(delivered[child], offersAlternativeVaccine)
               ELSE "Inconsistent"
          ELSE getConfirmedConsentOutcome(decisions[1], offersAlternativeVaccine)
     ELSE "NoResponse"

\* replies that were not delivered taken as no response
getConsentOutcome_NoRequestLost(rs, offersAlternativeVaccine) ==
  LET valid == SelectSeq(PatientSessionReplies(rs), NotInvalid)
      delivered == SelectSeq(valid, ReplyDelivered)
      decisions == UniqByDecision(delivered)
      child == FirstIndex(delivered, IsChildReply)
  IN IF Len(valid) = 1
     THEN IF ~ReplyDelivered(valid[1]) THEN "NoRequest"
          ELSE getConfirmedConsentOutcome(valid[1], offersAlternativeVaccine)
     ELSE IF Len(valid) > 1
     THEN IF Len(delivered) = 0 THEN "NoResponse"
          ELSE IF Len(decisions) > 1
          THEN IF child # 0
               THEN getConfirmedConsentOutcome(delivered[child], offersAlternativeVaccine)
               ELSE IF \E i \in 1..Len(decisions) : ReplyDeclined(decisions[i])
               THEN "Declined"
               ELSE "Inconsistent"
          ELSE getConfirmedConsentOutcome(decisions[1], offersAlternativeVaccine)
     ELSE "NoResponse"

\* getConsentOutcome
getConsentOutcome(rs, offersAlternativeVaccine) ==
  LET valid == SelectSeq(PatientSessionReplies(rs), NotInvalid)
      delivered == SelectSeq(valid, ReplyDelivered)
      decisions == UniqByDecision(delivered)
      child == FirstIndex(delivered, IsChildReply)
  IN IF Len(valid) = 1
     THEN IF ~ReplyDelivered(valid[1]) THEN "NoRequest"
          ELSE getConfirmedConsentOutcome(valid[1], offersAlternativeVaccine)
     ELSE IF Len(valid) > 1
     THEN IF Len(delivered) = 0 THEN "NoRequest"
          ELSE IF Len(decisions) > 1
          THEN IF child # 0
               THEN getConfirmedConsentOutcome(delivered[child], offersAlternativeVaccine)
               ELSE IF \E i \in 1..Len(decisions) : ReplyDeclined(decisions[i])
               THEN "Declined"
               ELSE "Inconsistent"
          ELSE getConfirmedConsentOutcome(decisions[1], offersAlternativeVaccine)
     ELSE "NoResponse"

consent == getConsentOutcome(replies, alternativeVaccine)

\* PatientSession.consentGiven
ConsentGiven(rs, offersAlternativeVaccine) ==
  getConsentOutcome(rs, offersAlternativeVaccine)
    \in {"Given", "GivenForAlternativeInjection", "GivenForIntranasal"}

consentGiven == ConsentGiven(replies, alternativeVaccine)

(***************************************************************************)
(* Screening and triage                                                    *)
(***************************************************************************)

\* the test of getRepliesWithHealthAnswers on one reply
HasHealthAnswersToTriage(r) ==
  LET answers == ReplyHealthAnswers(r)
  IN answers # NoHealthAnswers /\ \E q \in DOMAIN answers : answers[q] # "No"

getRepliesWithHealthAnswers(rs) == SelectSeq(rs, HasHealthAnswersToTriage)

\* hasAnswersNeedingTriage: a "Yes" to any question but the asthma parent question
hasAnswersNeedingTriage(answers) ==
  answers # NoHealthAnswers
    /\ \E q \in DOMAIN answers \ {"asthma"} : answers[q] = "Yes"

HasOutcome(e) == e.outcome # "NoOutcome"

\* PatientSession.triageNotes
triageNotes(es) == SelectSeq(es, HasOutcome)

\* getScreenOutcome that does not look at the consent outcome
getScreenOutcome_WithoutConsent(rs, es, offersAlternativeVaccine) ==
  LET responsesToTriage == getRepliesWithHealthAnswers(Responses(rs))
      notes == SelectSeq(triageNotes(es), HasOutcome)
  IN IF Len(responsesToTriage) = 0
     THEN IF Len(notes) > 0 THEN notes[Len(notes)].outcome ELSE "false"
     ELSE IF Len(notes) > 0 THEN notes[Len(notes)].outcome ELSE "NeedsTriage"

\* getScreenOutcome taking the first triage note instead of the last
getScreenOutcome_FirstNote(rs, es, offersAlternativeVaccine) ==
  LET responsesToTriage == getRepliesWithHealthAnswers(Responses(rs))
      notes == SelectSeq(triageNotes(es), HasOutcome)
  IN IF ~ConsentGiven(rs, offersAlternativeVaccine) THEN "false"
     ELSE IF Len(responsesToTriage) = 0
     THEN IF Len(notes) > 0 THEN notes[1].outcome ELSE "false"
     ELSE IF Len(notes) > 0 THEN notes[1].outcome ELSE "NeedsTriage"

getScreenOutcome(rs, es, offersAlternativeVaccine) ==
  LET responsesToTriage == getRepliesWithHealthAnswers(Responses(rs))
      notes == SelectSeq(triageNotes(es), HasOutcome)
  IN IF ~ConsentGiven(rs, offersAlternativeVaccine) THEN "false"
     ELSE IF Len(responsesToTriage) = 0
     THEN IF Len(notes) > 0 THEN notes[Len(notes)].outcome ELSE "false"
     ELSE IF Len(notes) > 0 THEN notes[Len(notes)].outcome ELSE "NeedsTriage"

screen == getScreenOutcome(replies, events, alternativeVaccine)

\* a delayed vaccination kept in triage
getTriageOutcome_DelayNeeded(s) ==
  IF s \in {"NeedsTriage", "DelayVaccination"} THEN "Needed"
  ELSE IF s # "false" THEN "Completed"
  ELSE "NotNeeded"

\* getTriageOutcome
getTriageOutcome(s) ==
  IF s = "NeedsTriage" THEN "Needed"
  ELSE IF s # "false" THEN "Completed"
  ELSE "NotNeeded"

triage == getTriageOutcome(screen)

(***************************************************************************)
(* Vaccine                                                                 *)
(***************************************************************************)
IsOnlyAlternativeInjection(r) == r.decision = "OnlyAlternativeInjection"

\* PatientSession.hasConsentForAlternativeInjectionOnly
hasConsentForAlternativeInjectionOnly(rs) ==
  LET responses == Responses(rs)
  IN \A i \in 1..Len(responses) : IsOnlyAlternativeInjection(responses[i])

\* PatientSession.vaccine: "undefined", "standard" or "alternative"
Vaccine(rs, es, alt, offersAlternativeVaccine) ==
  IF ~ConsentGiven(rs, offersAlternativeVaccine) THEN "undefined"
  ELSE IF ~offersAlternativeVaccine THEN "standard"
  ELSE IF alt THEN "alternative"
  ELSE IF hasConsentForAlternativeInjectionOnly(rs)
          \/ getScreenOutcome(rs, es, offersAlternativeVaccine)
               = "VaccinateAlternativeInjection"
       THEN "alternative"
       ELSE "standard"

vaccine == Vaccine(replies, events, alternative, alternativeVaccine)

\* PatientSession.vaccineCriteria: "undefined", "IntranasalOnly",
\* "AlternativeInjectionOnly" or "Any"
getVaccineCriteria(rs, es, offersAlternativeVaccine) ==
  IF ~offersAlternativeVaccine THEN "undefined"
  ELSE IF ~ConsentGiven(rs, offersAlternativeVaccine) THEN "undefined"
  ELSE IF getScreenOutcome(rs, es, offersAlternativeVaccine) = "VaccinateIntranasal"
       THEN "IntranasalOnly"
  ELSE IF getConsentOutcome(rs, offersAlternativeVaccine) = "GivenForAlternativeInjection"
          \/ getScreenOutcome(rs, es, offersAlternativeVaccine)
               = "VaccinateAlternativeInjection"
       THEN "AlternativeInjectionOnly"
  ELSE "Any"

vaccineCriteria == getVaccineCriteria(replies, events, alternativeVaccine)

\* the hasConsentForInjection property read from a reply: the Reply class
\* defines none, so what is read is undefined
ReplyHasConsentForInjection(r) == FALSE

\* PatientSession.hasConsentForInjection
hasConsentForInjection(rs) ==
  LET responses == Responses(rs)
  IN \A i \in 1..Len(responses) : ReplyHasConsentForInjection(responses[i])

\* PatientSession.canRecordAlternativeVaccine
getCanRecordAlternativeVaccine(rs, es, offersAlternativeVaccine) ==
  /\ hasConsentForInjection(rs)
  /\ ~hasConsentForAlternativeInjectionOnly(rs)
  /\ getScreenOutcome(rs, es, offersAlternativeVaccine) # "VaccinateIntranasal"

canRecordAlternativeVaccine ==
  getCanRecordAlternativeVaccine(replies, events, alternativeVaccine)

(***************************************************************************)
(* Outcome                                                                 *)
(***************************************************************************)

\* Vaccination.constructor: given
VaccinationGiven(v) ==
  v.outcome \in {"Vaccinated", "PartVaccinated", "AlreadyVaccinated"}

\* a refusal looked at before the vaccinations
getReportOutcome_ConsentFirst(vs, consentOutcome, screenOutcome) ==
  IF consentOutcome \in {"Refused", "FinalRefusal"} THEN "CouldNotVaccinate"
  ELSE IF Len(vs) > 0
  THEN IF VaccinationGiven(vs[Len(vs)]) THEN "Vaccinated" ELSE "CouldNotVaccinate"
  ELSE IF screenOutcome = "DoNotVaccinate" THEN "CouldNotVaccinate"
  ELSE "NoOutcomeYet"

\* getReportOutcome
getReportOutcome(vs, consentOutcome, screenOutcome) ==
  IF Len(vs) > 0
  THEN IF VaccinationGiven(vs[Len(vs)]) THEN "Vaccinated" ELSE "CouldNotVaccinate"
  ELSE IF consentOutcome \in {"Refused", "FinalRefusal"} THEN "CouldNotVaccinate"
  ELSE IF screenOutcome = "DoNotVaccinate" THEN "CouldNotVaccinate"
  ELSE "NoOutcomeYet"

report == getReportOutcome(vaccinations, consent, screen)

\* the outcome of the first vaccination instead of the last
getSessionOutcome_FirstVaccination(vs, consentOutcome, screenOutcome) ==
  IF Len(vs) > 0 THEN vs[1].outcome
  ELSE IF consentOutcome \in {"Refused", "FinalRefusal"} THEN "Refused"
  ELSE IF screenOutcome = "DoNotVaccinate" THEN "Contraindications"
  ELSE "NoOutcomeYet"

\* getSessionOutcome
getSessionOutcome(vs, consentOutcome, screenOutcome) ==
  IF Len(vs) > 0 THEN vs[Len(vs)].outcome
  ELSE IF consentOutcome \in {"Refused", "FinalRefusal"} THEN "Refused"
  ELSE IF screenOutcome = "DoNotVaccinate" THEN "Contraindications"
  ELSE "NoOutcomeYet"

\* PatientSession.outcome
sessionOutcome == getSessionOutcome(vaccinations, consent, screen)

(***************************************************************************)
(* Next activity                                                           *)
(***************************************************************************)
\* the report looked at before the screen outcome
getNextActivity_ReportFirst(consentOutcome, given, triageOutcome, screenOutcome, reportOutcome) ==
  IF consentOutcome \in {"Refused", "FinalRefusal"} THEN "DoNotRecord"
  ELSE IF ~given THEN "Consent"
  ELSE IF triageOutcome = "Needed" THEN "Triage"
  ELSE IF reportOutcome = "Vaccinated" THEN "Report"
  ELSE IF screenOutcome = "DoNotVaccinate" THEN "DoNotRecord"
  ELSE "Record"

\* getNextActivity
getNextActivity(consentOutcome, given, triageOutcome, screenOutcome, reportOutcome) ==
  IF consentOutcome \in {"Refused", "FinalRefusal"} THEN "DoNotRecord"
  ELSE IF ~given THEN "Consent"
  ELSE IF triageOutcome = "Needed" THEN "Triage"
  ELSE IF screenOutcome = "DoNotVaccinate" THEN "DoNotRecord"
  ELSE IF reportOutcome = "Vaccinated" THEN "Report"
  ELSE "Record"

nextActivity == getNextActivity(consent, consentGiven, triage, screen, report)

(***************************************************************************)
(* Registration                                                            *)
(***************************************************************************)
NotRegistered == "NotRegistered"

\* the register looked at before the report
getRegistrationOutcome_RegisterFirst(usesRegistration, reportOutcome, entry) ==
  IF ~usesRegistration THEN "Present"
  ELSE IF entry # NotRegistered THEN entry
  ELSE IF reportOutcome = "Vaccinated" THEN "Complete"
  ELSE "Pending"

\* getRegistrationOutcome
getRegistrationOutcome(usesRegistration, reportOutcome, entry) ==
  IF ~usesRegistration THEN "Present"
  ELSE IF reportOutcome = "Vaccinated" THEN "Complete"
  ELSE IF entry # NotRegistered THEN entry
  ELSE "Pending"

registerOutcome == getRegistrationOutcome(registration, report, register)

\* getRecordOutcome without the registration check
getRecordOutcome_NoRegistration(activity, registerEntry, usesRegistration) ==
  IF activity = "Record" THEN "Record" ELSE "undefined"

\* getRecordOutcome: "undefined" when the next activity is not Record
getRecordOutcome(activity, registerEntry, usesRegistration) ==
  IF activity = "Record"
  THEN IF usesRegistration /\ registerEntry = "Pending" THEN "Register" ELSE "Record"
  ELSE "undefined"

record == getRecordOutcome(nextActivity, registerOutcome, registration)

(***************************************************************************)
(* Derivations of a patient session whose session may be missing           *)
(*                                                                         *)
(* PatientSession.session is undefined when session_id does not resolve.   *)
(* Reading a property of it throws a TypeError, which no derivation        *)
(* catches.                                                                *)
(***************************************************************************)
TypeError == "TypeError"

\* getConsentOutcome hands patientSession.session to
\* getConfirmedConsentOutcome, which reads session.offersAlternativeVaccine
\* when the reply it is given consents
consentOrThrow ==
  IF ~sessionFound /\ consentGiven THEN TypeError ELSE consent

\* getScreenOutcome reads consentGiven first
screenOrThrow ==
  IF consentOrThrow = TypeError THEN TypeError ELSE screen

\* getTriageOutcome reads screen
triageOrThrow ==
  IF screenOrThrow = TypeError THEN TypeError ELSE triage

\* getReportOutcome reads consent only when there is no vaccination
reportOrThrow ==
  IF Len(vaccinations) = 0 /\ consentOrThrow = TypeError THEN TypeError ELSE report

\* getNextActivity reads consent, consentGiven, triage, screen and report
nextActivityOrThrow ==
  IF consentOrThrow = TypeError THEN TypeError ELSE nextActivity

\* getRegistrationOutcome reads report and then session.registration
registerOrThrow ==
  IF reportOrThrow = TypeError \/ ~sessionFound THEN TypeError ELSE registerOutcome

\* getRecordOutcome reads nextActivity and register
recordOrThrow ==
  IF nextActivityOrThrow = TypeError \/ registerOrThrow = TypeError
  THEN TypeError
  ELSE record

(***************************************************************************)
(* Session status                                                          *)
(*                                                                         *)
(* A date is a day and a time of day.                                      *)
(***************************************************************************)
SessionStatus == {"Unplanned", "Planned", "Completed", "Closed"}

TimesOfDay == <<"morning", "midday", "afternoon">>

TimeIndex(t) == CHOOSE i \in 1..Len(TimesOfDay) : TimesOfDay[i] = t

\* date-fns isAfter: the first date is after the second
isAfter(a, b) ==
  \/ a.day > b.day
  \/ a.day = b.day /\ TimeIndex(a.time) > TimeIndex(b.time)

\* date-fns isSameDay
isSameDay(a, b) == a.day = b.day

\* the date at 12:00
setMidday(date) == [date EXCEPT !.time = "midday"]

\* Session.lastDate
lastDate(ds) == ds[Len(ds)]

\* Session.status
getStatus(isClosed, ds, today) ==
  IF isClosed THEN "Closed"
  ELSE IF Len(ds) = 0 THEN "Unplanned"
  ELSE IF isAfter(setMidday(today), lastDate(ds)) THEN "Completed"
  ELSE "Planned"

status == getStatus(closed, dates, now)

(***************************************************************************)
(* Operations                                                              *)
(***************************************************************************)

\* Reply.update(uuid, { invalid: true }, data)
MarkInvalid(rs, i) == [rs EXCEPT ![i].invalid = TRUE]

\* PatientSession.recordTriage: add an audit event carrying the outcome
recordTriage(es, outcome, createdAt) ==
  Append(es, [outcome |-> outcome, createdAt |-> createdAt])

\* replyController.update('new'): record the triage decision made in the
\* wizard, invalidate the replaced reply, add the new reply.  The replaced
\* reply is given by the caller; UpdateNew below takes it from
\* request.app.locals.invalidUuid, where the wizard leaves it.
SubmitReply(r, replaced, triageOutcome, createdAt) ==
  /\ Len(replies) < MaxReplies
  /\ replaced \in 0..Len(replies)
  /\ triageOutcome # "NoOutcome" => Len(events) < MaxEvents
  /\ events' = IF triageOutcome # "NoOutcome"
               THEN recordTriage(events, triageOutcome, createdAt)
               ELSE events
  /\ replies' = Append(IF replaced # 0 THEN MarkInvalid(replies, replaced) ELSE replies,
                       r)
  /\ UNCHANGED <<vaccinations, register, alternative, alternativeVaccine, registration,
                 sessionVars,
                 wizardVars, accountVars>>

\* replyController.invalidate
InvalidateReply(i) ==
  /\ i \in 1..Len(replies)
  /\ ~replies[i].invalid
  /\ replies' = MarkInvalid(replies, i)
  /\ UNCHANGED <<events, vaccinations, register, alternative, alternativeVaccine,
                 registration, sessionVars,
                 wizardVars, accountVars>>

\* replyController.updateForm, respondent step, an existing respondent chosen:
\* the reply of that respondent is to be replaced by the reply in the wizard
\* (one started by replyController.new, replacing nothing so far, or one that
\* was to replace the reply `draft`)
UpdateFormRespondent(draft, i) ==
  /\ draft \in wizard \cup {0}
  /\ i \in 1..Len(replies)
  /\ invalidUuid' = i
  /\ wizard' = (wizard \ {draft}) \cup {i}
  /\ UNCHANGED <<replies, events, vaccinations, register, alternative,
                 alternativeVaccine, registration, sessionVars, accountVars>>

\* replyController.followUp, decision not confirmed: a reply replacing reply i
\* is created in the wizard
FollowUp(i) ==
  /\ i \in 1..Len(replies)
  /\ invalidUuid' = i
  /\ wizard' = wizard \cup {i}
  /\ UNCHANGED <<replies, events, vaccinations, register, alternative,
                 alternativeVaccine, registration, sessionVars, accountVars>>

\* replyController.update('new') for the reply in the wizard that replaces the
\* reply `draft` (0: a reply that replaces nothing, started by
\* replyController.new): the reply request.app.locals.invalidUuid names is
\* marked invalid, invalidUuid is deleted, the new reply is added
UpdateNew(r, draft) ==
  /\ draft \in wizard \cup {0}
  /\ Len(replies) < MaxReplies
  /\ replies' = Append(IF invalidUuid # 0 THEN MarkInvalid(replies, invalidUuid)
                                           ELSE replies,
                       r)
  /\ invalidUuid' = 0
  /\ wizard' = wizard \ {draft}
  /\ UNCHANGED <<events, vaccinations, register, alternative, alternativeVaccine,
                 registration, sessionVars, accountVars>>

\* the vaccine methods of the account after patientSessionController.read has
\* adjusted them for the session read: the national protocol adds Injection;
\* the PSD protocol takes Nasal from a healthcare assistant when the patient
\* has no PSD
readVaccineMethods(methods, role, view) ==
  LET upgraded == IF view.nationalProtocol THEN methods \cup {"Injection"} ELSE methods
  IN IF view.psdProtocol /\ role = "HCA" /\ ~view.patientHasPsd
     THEN upgraded \ {"Nasal"}
     ELSE upgraded

\* options.canRecord of patientSessionController.read
canRecord(methods, view) ==
  view.vaccineMethod \in methods /\ view.record = "Record"

\* patientSessionController.read of a patient session: the account's vaccine
\* methods are adjusted in place and the options of the page are set
Read(view) ==
  /\ account' = [account EXCEPT !.vaccineMethods =
                   readVaccineMethods(account.vaccineMethods, account.role, view)]
  /\ options' = << [view |-> view,
                    canRecord |-> canRecord(account'.vaccineMethods, view)] >>
  /\ UNCHANGED <<replies, events, vaccinations, register, alternative,
                 alternativeVaccine, registration, sessionVars, wizardVars, permitted>>

\* patientSessionController.triage
RecordTriage(outcome, createdAt) ==
  /\ Len(events) < MaxEvents
  /\ events' = recordTriage(events, outcome, createdAt)
  /\ UNCHANGED <<replies, vaccinations, register, alternative, alternativeVaccine,
                 registration, sessionVars,
                 wizardVars, accountVars>>

\* getConsentHealthAnswers, as far as it writes: in every delivered reply with
\* health answers, a health answer without an answer is given the answer "No"
FillAnswers(r) ==
  IF ReplyDelivered(r) /\ ReplyHealthAnswers(r) # NoHealthAnswers
  THEN [r EXCEPT !.healthAnswers =
          [q \in DOMAIN r.healthAnswers |->
             IF r.healthAnswers[q] = NoAnswer THEN "No" ELSE r.healthAnswers[q]]]
  ELSE r

\* reading PatientSession.consentHealthAnswers
EvaluateConsentHealthAnswers ==
  /\ replies' = [i \in 1..Len(replies) |-> FillAnswers(replies[i])]
  /\ UNCHANGED <<events, vaccinations, register, alternative, alternativeVaccine,
                 registration, sessionVars,
                 wizardVars, accountVars>>

\* Patient.recordVaccination
recordVaccination(vs, outcome) == Append(vs, [outcome |-> outcome])

\* recording a vaccination outcome for the patient session
RecordVaccination(outcome) ==
  /\ Len(vaccinations) < MaxVaccinations
  /\ vaccinations' = recordVaccination(vaccinations, outcome)
  /\ UNCHANGED <<replies, events, register, alternative, alternativeVaccine,
                 registration, sessionVars,
                 wizardVars, accountVars>>

\* patientSessionController.register: register attendance; a patient registered
\* as absent gets a vaccination with outcome Absent unless the report already
\* is CouldNotVaccinate.  Reading patientSession.vaccine.snomed throws when
\* there is no vaccine, after the register has been written.
Register(outcome) ==
  /\ register' = outcome
  /\ vaccinations' =
       IF outcome = "Absent" /\ report # "CouldNotVaccinate" /\ vaccine # "undefined"
       THEN recordVaccination(vaccinations, "Absent")
       ELSE vaccinations
  /\ Len(vaccinations') <= MaxVaccinations
  /\ UNCHANGED <<replies, events, alternative, alternativeVaccine, registration,
                 sessionVars,
                 wizardVars, accountVars>>

\* patientSessionController.register throws a TypeError, after the register is
\* written, when it reads patientSession.vaccine.snomed of a patient session
\* without a vaccine
RegisterThrows(outcome) ==
  outcome = "Absent" /\ report # "CouldNotVaccinate" /\ vaccine = "undefined"

\* replyController.withdraw: a copy of reply i with decision Refused, created
\* now, is added (the respondent, the method with its delivery, the invalid
\* and confirmed flags are those of reply i); with the refusal reason "already
\* given" a vaccination AlreadyVaccinated is recorded; reply i is marked
\* invalid.  The refusal is added to the replies submitted, of which there are
\* at most MaxReplies.
Withdraw(i, alreadyGiven) ==
  /\ i \in 1..Len(replies)
  /\ Len(replies) < MaxReplies + 1
  /\ alreadyGiven => Len(vaccinations) < MaxVaccinations
  /\ replies' = MarkInvalid(
                  Append(replies, [replies[i] EXCEPT !.decision = "Refused",
                                                     !.createdAt = Len(replies) + 1]),
                  i)
  /\ vaccinations' = IF alreadyGiven
                     THEN recordVaccination(vaccinations, "AlreadyVaccinated")
                     ELSE vaccinations
  /\ UNCHANGED <<events, register, alternative, alternativeVaccine, registration,
                 sessionVars, wizardVars, accountVars>>

\* patientSessionController.preScreen
PreScreen(ready) ==
  /\ alternative' = (ready = "alternative")
  /\ UNCHANGED <<replies, events, vaccinations, register, alternativeVaccine,
                 registration, sessionVars,
                 wizardVars, accountVars>>

\* sessionController.update: a date entered in the session form (a day, held
\* at midday) is added after the dates there are
AddDate(day) ==
  /\ Len(dates) < MaxDates
  /\ Len(dates) > 0 => day > lastDate(dates).day
  /\ dates' = Append(dates, [day |-> day, time |-> "midday"])
  /\ UNCHANGED <<replies, events, vaccinations, register, alternative,
                 alternativeVaccine, registration, sessionFound, closed, now,
                 wizardVars, accountVars>>

\* create-data: a planned session without a date today has its first date
\* replaced by today()
ScheduleToday ==
  /\ status = "Planned"
  /\ \A i \in 1..Len(dates) : ~isSameDay(dates[i], now)
  /\ dates' = <<now>> \o Tail(dates)
  /\ UNCHANGED <<replies, events, vaccinations, register, alternative,
                 alternativeVaccine, registration, sessionFound, closed, now,
                 wizardVars, accountVars>>

\* sessionController.close
Close ==
  /\ closed' = TRUE
  /\ UNCHANGED <<replies, events, vaccinations, register, alternative,
                 alternativeVaccine, registration, sessionFound, dates, now,
                 wizardVars, accountVars>>

\* time passes
Tick(later) ==
  /\ isAfter(later, now)
  /\ now' = later
  /\ UNCHANGED <<replies, events, vaccinations, register, alternative,
                 alternativeVaccine, registration, sessionFound, closed, dates,
                 wizardVars, accountVars>>

\* convertObjectToIsoDate: the date of a date input (a day), held at midday
convertObjectToIsoDate(day) == [day |-> day, time |-> "midday"]

\* convertIsoDateToObject: the date input of a date
convertIsoDateToObject(date) == date.day

\* Session.dates_ (get)
getDates_(ds) == [i \in 1..Len(ds) |-> convertIsoDateToObject(ds[i])]

\* Session.dates_ (set): the date inputs in the order of the object's values
setDates_(object) == [i \in 1..Len(object) |-> convertObjectToIsoDate(object[i])]

\* _.merge of the session's date inputs with the date inputs of the form:
\* index by index, the form's date input replaces the one there is
mergeDates_(current, object) ==
  [i \in 1..(IF Len(object) > Len(current) THEN Len(object) ELSE Len(current)) |->
     IF i <= Len(object) THEN object[i] ELSE current[i]]

\* sessionController.updateForm: Session.update with the date inputs of the
\* session form
SessionUpdateForm(object) ==
  /\ dates' = setDates_(mergeDates_(getDates_(dates), object))
  /\ UNCHANGED <<replies, events, vaccinations, register, alternative,
                 alternativeVaccine, registration, sessionFound, closed, now,
                 wizardVars, accountVars>>

(***************************************************************************)
(* Inputs                                                                  *)
(***************************************************************************)
Delivery ==
  {[method |-> "Phone", notified |-> FALSE],
   [method |-> "Website", notified |-> TRUE],
   [method |-> "Website", notified |-> FALSE]}

NewReply(decision, confirmed, delivery, parent, healthAnswers, createdAt) ==
  [decision |-> decision, confirmed |-> confirmed, invalid |-> FALSE,
   method |-> delivery.method, notified |-> delivery.notified,
   parent |-> parent, healthAnswers |-> healthAnswers, createdAt |-> createdAt]

\* replies of every decision, respondent and delivery, without health answers
\* (a parent or the child; only a refusal is ever confirmed)
Respondents == {"Mum", NoParent}

ConsentDecisionInputs ==
  {"NoResponse", "Given", "OnlyAlternativeInjection", "Declined", "Refused"}

ConsentReplyInputs(createdAt) ==
  {NewReply(d, FALSE, dl, p, NoHealthAnswers, createdAt) :
     d \in ConsentDecisionInputs, dl \in Delivery, p \in Respondents}
  \cup {NewReply("Refused", TRUE, dl, p, NoHealthAnswers, createdAt) :
          dl \in Delivery, p \in Respondents}

HealthAnswersInputs ==
  {[asthma |-> "No", allergy |-> "No"],
   [asthma |-> "Yes", allergy |-> "No"],
   [asthma |-> "No", allergy |-> "Yes"],
   [asthma |-> "No", allergy |-> NoAnswer]}

\* replies by phone from one parent, with health answers when consenting
ScreenReplyInputs(createdAt) ==
  {NewReply("Given", FALSE, [method |-> "Phone", notified |-> FALSE], "Mum", h,
            createdAt) : h \in HealthAnswersInputs}
  \cup {NewReply("OnlyAlternativeInjection", FALSE,
                 [method |-> "Phone", notified |-> FALSE], "Mum",
                 [asthma |-> "No", allergy |-> "Yes"], createdAt),
        NewReply("Refused", FALSE, [method |-> "Phone", notified |-> FALSE], "Mum",
                 NoHealthAnswers, createdAt)}

ScreenTriageInputs ==
  {"NeedsTriage", "Vaccinate", "VaccinateIntranasal", "VaccinateAlternativeInjection"}

\* replies by phone from one parent, without health answers
RecordReplyInputs(createdAt) ==
  {NewReply(d, FALSE, [method |-> "Phone", notified |-> FALSE], "Mum",
            NoHealthAnswers, createdAt) : d \in {"Given", "Refused"}}

\* replies by phone from one parent: a refusal, consent with nothing to triage
\* and consent with a health answer to triage
OutcomeReplyInputs(createdAt) ==
  RecordReplyInputs(createdAt)
  \cup {NewReply("Given", FALSE, [method |-> "Phone", notified |-> FALSE], "Mum",
                 [asthma |-> "No", allergy |-> "Yes"], createdAt)}

OutcomeTriageInputs == {"Vaccinate", "DelayVaccination", "DoNotVaccinate"}

\* replies of every decision from one parent, delivered (by phone) or not
\* (by the website, without a notification delivered)
ReplyInputs(createdAt) ==
  {NewReply(d, FALSE, [method |-> m, notified |-> FALSE], "Mum", NoHealthAnswers,
            createdAt) : d \in ReplyDecision, m \in {"Phone", "Website"}}
  \cup {NewReply("Refused", TRUE, [method |-> m, notified |-> FALSE], "Mum",
                 NoHealthAnswers, createdAt) : m \in {"Phone", "Website"}}

RecordTriageInputs == {"Vaccinate", "DoNotVaccinate"}

\* a triage decision is recorded now, after every event there is, or with a
\* date given by the caller, which may lie before the events there are
TriageTimes(es) == {0, Len(es) + 1}

RecordVaccinationInputs == {"Vaccinated", "Refused"}

RegisterInputs == {"Present", "Absent"}

(***************************************************************************)
(* Specifications                                                          *)
(***************************************************************************)
Empty ==
  /\ replies = << >>
  /\ events = << >>
  /\ vaccinations = << >>
  /\ register = NotRegistered
  /\ alternative = FALSE
  /\ sessionFound = TRUE
  /\ closed = FALSE
  /\ dates = << >>
  /\ now = [day |-> 1, time |-> "morning"]
  /\ invalidUuid = 0
  /\ wizard = {}
  /\ account = [role |-> "Nurse", vaccineMethods |-> {"Injection", "Nasal"}]
  /\ permitted = {"Injection", "Nasal"}
  /\ options = << >>

\* recording: replies, triage, pre-screening, registration and vaccinations
Init ==
  /\ Empty
  /\ alternativeVaccine \in BOOLEAN
  /\ registration \in BOOLEAN

Next ==
  \/ \E r \in RecordReplyInputs(Len(replies) + 1) : SubmitReply(r, 0, "NoOutcome", 1)
  \/ \E i \in 1..Len(replies) : InvalidateReply(i)
  \/ \E o \in RecordTriageInputs : RecordTriage(o, Len(events) + 1)
  \/ \E o \in RecordVaccinationInputs : RecordVaccination(o)
  \/ \E o \in RegisterInputs : Register(o)
  \/ \E ready \in {"standard", "alternative"} : PreScreen(ready)

Spec == Init /\ [][Next]_vars

\* consent: replies of every kind, replaced and invalidated
InitConsent ==
  /\ Empty
  /\ alternativeVaccine \in BOOLEAN
  /\ registration = FALSE

NextConsent ==
  \/ \E r \in ConsentReplyInputs(Len(replies) + 1), replaced \in 0..Len(replies) :
       SubmitReply(r, replaced, "NoOutcome", 1)
  \/ \E i \in 1..Len(replies) : InvalidateReply(i)

SpecConsent == InitConsent /\ [][NextConsent]_vars

\* screening: consenting replies with health answers, triage decisions
InitScreen ==
  /\ Empty
  /\ alternativeVaccine = TRUE
  /\ registration = FALSE

NextScreen ==
  \/ \E r \in ScreenReplyInputs(Len(replies) + 1) : SubmitReply(r, 0, "NoOutcome", 1)
  \/ \E i \in 1..Len(replies) : InvalidateReply(i)
  \/ \E o \in ScreenTriageInputs, t \in TriageTimes(events) : RecordTriage(o, t)
  \/ EvaluateConsentHealthAnswers

SpecScreen == InitScreen /\ [][NextScreen]_vars

\* replies: one parent's replies of every decision, delivered or not,
\* invalidated
InitReply ==
  /\ Empty
  /\ alternativeVaccine \in BOOLEAN
  /\ registration = FALSE

NextReply ==
  \/ \E r \in ReplyInputs(Len(replies) + 1) : SubmitReply(r, 0, "NoOutcome", 1)
  \/ \E i \in 1..Len(replies) : InvalidateReply(i)

SpecReply == InitReply /\ [][NextReply]_vars

Days == 1..MaxDay

Instants == [day : Days, time : {TimesOfDay[i] : i \in 1..Len(TimesOfDay)}]

\* a session: dates are added, the session is closed, time passes
InitSession ==
  /\ replies = << >>
  /\ events = << >>
  /\ vaccinations = << >>
  /\ register = NotRegistered
  /\ alternative = FALSE
  /\ alternativeVaccine = FALSE
  /\ registration = FALSE
  /\ sessionFound = TRUE
  /\ closed = FALSE
  /\ dates = << >>
  /\ now \in {t \in Instants : t.day = 1}
  /\ invalidUuid = 0
  /\ wizard = {}
  /\ account = [role |-> "Nurse", vaccineMethods |-> {"Injection", "Nasal"}]
  /\ permitted = {"Injection", "Nasal"}
  /\ options = << >>

NextSession ==
  \/ \E day \in Days : AddDate(day)
  \/ ScheduleToday
  \/ Close
  \/ \E later \in Instants : Tick(later)

SpecSession == InitSession /\ [][NextSession]_vars

\* the date inputs a session form can submit: one to MaxDates days, in the
\* order entered
DateInputs == UNION {[1..n -> Days] : n \in 1..MaxDates}

\* a session whose dates are edited in the session form
NextDates ==
  \/ \E object \in DateInputs : SessionUpdateForm(object)
  \/ ScheduleToday
  \/ Close
  \/ \E later \in Instants : Tick(later)

SpecDates == InitSession /\ [][NextDates]_vars

\* the reply wizard: replacements of replies are started and replies submitted
NextWizard ==
  \/ \E draft \in 0..MaxReplies, i \in 1..Len(replies) : UpdateFormRespondent(draft, i)
  \/ \E i \in 1..Len(replies) : FollowUp(i)
  \/ \E r \in OutcomeReplyInputs(Len(replies) + 1), draft \in 0..MaxReplies :
       UpdateNew(r, draft)

SpecWizard == InitConsent /\ [][NextWizard]_vars

UserRole == {"Nurse", "HCA"}

VaccineMethod == {"Injection", "Nasal"}

\* the patient sessions a user can read: the protocols of the session, whether
\* the patient has a PSD, the method of the patient session's vaccine
\* ("undefined" without a vaccine) and its record outcome
Views ==
  [nationalProtocol : BOOLEAN, psdProtocol : BOOLEAN, patientHasPsd : BOOLEAN,
   vaccineMethod : VaccineMethod \cup {"undefined"},
   record : {"Record", "Register", "undefined"}]

\* a user signs in and reads patient sessions
InitAccount ==
  /\ replies = << >>
  /\ events = << >>
  /\ vaccinations = << >>
  /\ register = NotRegistered
  /\ alternative = FALSE
  /\ alternativeVaccine = FALSE
  /\ registration = FALSE
  /\ sessionFound = TRUE
  /\ closed = FALSE
  /\ dates = << >>
  /\ now = [day |-> 1, time |-> "morning"]
  /\ invalidUuid = 0
  /\ wizard = {}
  /\ permitted \in SUBSET VaccineMethod
  /\ account \in [role : UserRole, vaccineMethods : {permitted}]
  /\ options = << >>

NextAccount == \E view \in Views : Read(view)

SpecAccount == InitAccount /\ [][NextAccount]_vars

\* replies that give or refuse consent, from a parent or from the child,
\* delivered (by phone) or not (by the website, without a notification
\* delivered)
WithdrawReplyInputs(createdAt) ==
  {NewReply(d, FALSE, [method |-> m, notified |-> FALSE], p, NoHealthAnswers,
            createdAt) :
     d \in {"Given", "Refused"}, m \in {"Phone", "Website"}, p \in Respondents}

\* replies are submitted and consent is withdrawn
NextWithdraw ==
  \/ \E r \in WithdrawReplyInputs(Len(replies) + 1) :
       SubmitReply(r, 0, "NoOutcome", 1)
  \/ \E i \in 1..Len(replies), alreadyGiven \in BOOLEAN : Withdraw(i, alreadyGiven)

SpecWithdraw == InitConsent /\ [][NextWithdraw]_vars

\* a patient session whose session_id resolves to no session: replies, triage
\* decisions and vaccinations are added to the patient
InitDetached ==
  /\ replies = << >>
  /\ events = << >>
  /\ vaccinations = << >>
  /\ register = NotRegistered
  /\ alternative = FALSE
  /\ alternativeVaccine = FALSE
  /\ registration = FALSE
  /\ sessionFound = FALSE
  /\ closed = FALSE
  /\ dates = << >>
  /\ now = [day |-> 1, time |-> "morning"]
  /\ invalidUuid = 0
  /\ wizard = {}
  /\ account = [role |-> "Nurse", vaccineMethods |-> {"Injection", "Nasal"}]
  /\ permitted = {"Injection", "Nasal"}
  /\ options = << >>

NextDetached ==
  \/ \E r \in OutcomeReplyInputs(Len(replies) + 1) : SubmitReply(r, 0, "NoOutcome", 1)
  \/ \E o \in OutcomeTriageInputs : RecordTriage(o, Len(events) + 1)
  \/ \E o \in RecordVaccinationInputs : RecordVaccination(o)

SpecDetached == InitDetached /\ [][NextDetached]_vars

\* outcomes: replies, triage decisions, registration and vaccinations for a
\* programme with the standard vaccine only
InitOutcome ==
  /\ Empty
  /\ alternativeVaccine = FALSE
  /\ registration \in BOOLEAN

NextOutcome ==
  \/ \E r \in OutcomeReplyInputs(Len(replies) + 1) : SubmitReply(r, 0, "NoOutcome", 1)
  \/ \E o \in OutcomeTriageInputs : RecordTriage(o, Len(events) + 1)
  \/ \E o \in RecordVaccinationInputs : RecordVaccination(o)
  \/ \E o \in RegisterInputs : Register(o)

SpecOutcome == InitOutcome /\ [][NextOutcome]_vars

TypeOK ==
  /\ Len(replies) <= MaxReplies + 1
  /\ Len(events) <= MaxEvents
  /\ Len(vaccinations) <= MaxVaccinations
  /\ Len(dates) <= MaxDates
  /\ now \in Instants
  /\ invalidUuid \in 0..Len(replies)
  /\ wizard \subseteq 1..Len(replies)

(***************************************************************************)
(* Properties                                                              *)
(***************************************************************************)

\* one reply is added and the replies there already are left as they are
AddsOneReply ==
  /\ Len(replies') = Len(replies) + 1
  /\ SubSeq(replies', 1, Len(replies)) = replies
  /\ ~ReplyInvalid(replies'[Len(replies')])

AddsOneEvent ==
  /\ Len(events') = Len(events) + 1
  /\ SubSeq(events', 1, Len(events)) = events

AddsOneVaccination ==
  /\ Len(vaccinations') = Len(vaccinations) + 1
  /\ SubSeq(vaccinations', 1, Len(vaccinations)) = vaccinations

\* C1: once the report outcome is Vaccinated it stays Vaccinated when one
\* further vaccination, non-invalid reply or triage event is added (the Absent
\* vaccination of a registration included)
C1_VaccinatedStaysVaccinated ==
  [][(report = "Vaccinated" /\ (AddsOneVaccination \/ AddsOneReply \/ AddsOneEvent))
       => report' = "Vaccinated"]_vars

\* C2: evaluating the combined consent health answers leaves the snapshot as
\* it was, so every derivation has the same value after it as before it
C2_EvaluationLeavesDerivations ==
  [][EvaluateConsentHealthAnswers
       => /\ replies' = replies
          /\ consent' = consent
          /\ screen' = screen
          /\ triage' = triage
          /\ vaccine' = vaccine
          /\ report' = report]_vars

\* the snapshot without the replies flagged invalid
WithoutInvalid(rs) == SelectSeq(rs, NotInvalid)

\* C3: every derived value is the value it has when the replies flagged
\* invalid are removed from the snapshot
C3_InvalidRepliesIgnored ==
  /\ consent = getConsentOutcome(WithoutInvalid(replies), alternativeVaccine)
  /\ screen = getScreenOutcome(WithoutInvalid(replies), events, alternativeVaccine)
  /\ triage = getTriageOutcome(
                getScreenOutcome(WithoutInvalid(replies), events, alternativeVaccine))
  /\ vaccine = Vaccine(WithoutInvalid(replies), events, alternative, alternativeVaccine)
  /\ report = getReportOutcome(vaccinations,
                getConsentOutcome(WithoutInvalid(replies), alternativeVaccine),
                getScreenOutcome(WithoutInvalid(replies), events, alternativeVaccine))

\* C4: once the consent outcome is FinalRefusal it stays FinalRefusal when one
\* further non-invalid reply is added
C4_FinalRefusalStays ==
  [][(consent = "FinalRefusal" /\ AddsOneReply) => consent' = "FinalRefusal"]_vars

\* the triage event with the latest timestamp, the last added among equals
LatestIndex(es) ==
  CHOOSE i \in 1..Len(es) :
    \A j \in 1..Len(es) :
      \/ es[j].createdAt < es[i].createdAt
      \/ (es[j].createdAt = es[i].createdAt /\ j <= i)

\* C5 as claimed: with consent given, the screen outcome is the outcome of the
\* triage event with the latest timestamp
C5_LatestTimestampWins ==
  (consentGiven /\ Len(triageNotes(events)) > 0)
    => screen = triageNotes(events)[LatestIndex(triageNotes(events))].outcome

\* C5 as amended: with consent given, the screen outcome is the outcome of the
\* triage event added last, so a decision added later supersedes an earlier one
C5_LastAddedWins ==
  (consentGiven /\ Len(triageNotes(events)) > 0)
    => screen = triageNotes(events)[Len(triageNotes(events))].outcome

\* a "Yes" health answer, NeedsTriage recorded first and Vaccinate recorded
\* after it: the screen outcome is Vaccinate
C5_Witness ==
  /\ consentGiven
  /\ \E i \in 1..Len(replies) :
       ~ReplyInvalid(replies[i]) /\ hasAnswersNeedingTriage(ReplyHealthAnswers(replies[i]))
  /\ Len(events) = 2
  /\ events[1].outcome = "NeedsTriage" /\ events[2].outcome = "Vaccinate"
  /\ events[1].createdAt < events[2].createdAt
  /\ screen = "Vaccinate"

\* C6: with consent given and no triage event, the screen outcome is
\* NeedsTriage when some delivered reply answers "Yes" to a health question
\* other than the asthma parent question, and false otherwise
C6_TriageOnlyForYesAnswers ==
  (consentGiven /\ Len(triageNotes(events)) = 0)
    => screen = IF \E i \in 1..Len(Responses(replies)) :
                     hasAnswersNeedingTriage(ReplyHealthAnswers(Responses(replies)[i]))
                THEN "NeedsTriage"
                ELSE "false"

\* the delivered replies that are not invalid
DeliveredReplies == SelectSeq(SelectSeq(replies, NotInvalid), ReplyDelivered)

DecisionsDiffer ==
  \E i, j \in 1..Len(DeliveredReplies) :
    DeliveredReplies[i].decision # DeliveredReplies[j].decision

FromChild(r) == r.parent = NoParent

SomeFromChild == \E i \in 1..Len(DeliveredReplies) : FromChild(DeliveredReplies[i])

SomeDeclined ==
  \E i \in 1..Len(DeliveredReplies) : DeliveredReplies[i].decision = "Declined"

\* C7: when the delivered non-invalid replies differ in decision and one is
\* from the child, the consent outcome is the outcome of a child's reply alone
C7_ChildDecisionWins ==
  (DecisionsDiffer /\ SomeFromChild)
    => \E i \in 1..Len(DeliveredReplies) :
         /\ FromChild(DeliveredReplies[i])
         /\ consent = getConsentOutcome(<< DeliveredReplies[i] >>, alternativeVaccine)

\* the child refuses and a parent consents: the outcome is the child's
C7_Witness ==
  /\ DecisionsDiffer
  /\ \E i, j \in 1..Len(DeliveredReplies) :
       /\ FromChild(DeliveredReplies[i]) /\ DeliveredReplies[i].decision = "Refused"
       /\ ~FromChild(DeliveredReplies[j]) /\ DeliveredReplies[j].decision = "Given"
  /\ consent \in {"Refused", "FinalRefusal"}

\* C8: when the delivered non-invalid replies differ in decision, none is from
\* the child and none is Declined, the consent outcome is Inconsistent
C8_ConflictIsInconsistent ==
  (DecisionsDiffer /\ ~SomeFromChild /\ ~SomeDeclined) => consent = "Inconsistent"

\* two delivered parent replies, Given and Refused
C8_Witness ==
  /\ ~SomeFromChild
  /\ \E i, j \in 1..Len(DeliveredReplies) :
       /\ DeliveredReplies[i].decision = "Given"
       /\ DeliveredReplies[j].decision = "Refused"
  /\ consent = "Inconsistent"

\* C9: when the delivered non-invalid replies differ in decision, none is from
\* the child and one is Declined, the consent outcome is Declined
C9_DeclinedOverInconsistent ==
  (DecisionsDiffer /\ ~SomeFromChild /\ SomeDeclined) => consent = "Declined"

\* two delivered parent replies, Declined and Given
C9_Witness ==
  /\ ~SomeFromChild
  /\ \E i, j \in 1..Len(DeliveredReplies) :
       /\ DeliveredReplies[i].decision = "Declined"
       /\ DeliveredReplies[j].decision = "Given"
  /\ consent = "Declined"

\* C10: with an alternative vaccine and consent given, the vaccine is the one
\* the screening outcome names when it names one, else the alternative when
\* every delivered reply consents to the alternative only, else the standard
C10_ScreenedMethodFirst ==
  (alternativeVaccine /\ consentGiven)
    => vaccine = IF screen = "VaccinateIntranasal" THEN "standard"
                 ELSE IF screen = "VaccinateAlternativeInjection" THEN "alternative"
                 ELSE IF hasConsentForAlternativeInjectionOnly(replies)
                      THEN "alternative"
                      ELSE "standard"

\* C11: the next activity is the first rule that matches of: consent Refused
\* or FinalRefusal, DoNotRecord; consent not given, Consent; triage Needed,
\* Triage; screen outcome DoNotVaccinate, DoNotRecord; report Vaccinated,
\* Report; otherwise Record
C11_NextActivityOrder ==
  LET refused == consent \in {"Refused", "FinalRefusal"}
      toTriage == triage = "Needed"
      doNot == screen = "DoNotVaccinate"
      done == report = "Vaccinated"
  IN /\ refused => nextActivity = "DoNotRecord"
     /\ (~refused /\ ~consentGiven) => nextActivity = "Consent"
     /\ (~refused /\ consentGiven /\ toTriage) => nextActivity = "Triage"
     /\ (~refused /\ consentGiven /\ ~toTriage /\ doNot) => nextActivity = "DoNotRecord"
     /\ (~refused /\ consentGiven /\ ~toTriage /\ ~doNot /\ done)
          => nextActivity = "Report"
     /\ (~refused /\ consentGiven /\ ~toTriage /\ ~doNot /\ ~done)
          => nextActivity = "Record"

\* consent given, triage decided DoNotVaccinate and yet a vaccination given:
\* the screen outcome comes before the report
C11_Witness ==
  /\ consentGiven
  /\ screen = "DoNotVaccinate"
  /\ report = "Vaccinated"
  /\ nextActivity = "DoNotRecord"

\* the vaccination recorded last
LastVaccination == vaccinations[Len(vaccinations)]

\* C12: with a vaccination record the report outcome is Vaccinated when the
\* most recent record is a given outcome and CouldNotVaccinate when it is not;
\* with none it is CouldNotVaccinate when the consent outcome is Refused or
\* FinalRefusal, else CouldNotVaccinate when the screen outcome is
\* DoNotVaccinate, else NoOutcomeYet
C12_ReportPrecedence ==
  LET recorded == Len(vaccinations) > 0
      refused == consent \in {"Refused", "FinalRefusal"}
      doNot == screen = "DoNotVaccinate"
  IN /\ (recorded /\ LastVaccination.outcome
                       \in {"Vaccinated", "PartVaccinated", "AlreadyVaccinated"})
          => report = "Vaccinated"
     /\ (recorded /\ LastVaccination.outcome
                       \in {"Contraindications", "Refused", "Absent", "Unwell"})
          => report = "CouldNotVaccinate"
     /\ (~recorded /\ refused) => report = "CouldNotVaccinate"
     /\ (~recorded /\ ~refused /\ doNot) => report = "CouldNotVaccinate"
     /\ (~recorded /\ ~refused /\ ~doNot) => report = "NoOutcomeYet"

\* consent refused and yet a vaccination given: the vaccination record decides
C12_Witness ==
  /\ consent = "Refused"
  /\ Len(vaccinations) > 0
  /\ LastVaccination.outcome = "Vaccinated"
  /\ report = "Vaccinated"

\* C13: the registration outcome is Present when the session does not use
\* registration; otherwise Complete when the report outcome is Vaccinated,
\* whatever the register holds; otherwise the value written last by a
\* register-attendance action; otherwise Pending when nothing has been written.
\* The register entry changes only by a register-attendance action, to the
\* value that action writes.
C13_RegistrationOutcome ==
  /\ [](registerOutcome =
          IF ~registration THEN "Present"
          ELSE IF report = "Vaccinated" THEN "Complete"
          ELSE IF register = NotRegistered THEN "Pending"
          ELSE register)
  /\ [][register' # register
          => \E o \in RegisterInputs : Register(o) /\ register' = o]_vars

\* registered as absent and then vaccinated: the outcome is Complete
C13_Witness ==
  /\ registration
  /\ register = "Absent"
  /\ report = "Vaccinated"
  /\ registerOutcome = "Complete"

\* C14: in a session that uses registration, a registration outcome that has
\* been Present, Absent or Complete is never Pending afterwards
C14_NeverPendingAgain ==
  [][(registration /\ registerOutcome \in {"Present", "Absent", "Complete"})
       => registerOutcome' # "Pending"]_vars

\* C15: when the session of a patient session is missing, every derivation
\* (consent, screen, triage, register, record, report, next activity) returns
\* a value and none throws
C15_NoThrowWithoutSession ==
  ~sessionFound
    => /\ consentOrThrow # TypeError
       /\ screenOrThrow # TypeError
       /\ triageOrThrow # TypeError
       /\ registerOrThrow # TypeError
       /\ recordOrThrow # TypeError
       /\ reportOrThrow # TypeError
       /\ nextActivityOrThrow # TypeError

\* C16: when the consent outcome is neither Given nor given for the
\* alternative, the screen outcome is false and the triage outcome NotNeeded,
\* whatever health answers and triage events there are
C16_NoScreenWithoutConsent ==
  consent \notin {"Given", "GivenForAlternativeInjection"}
    => screen = "false" /\ triage = "NotNeeded"

\* conflicting replies, one with a "Yes" health answer, and a triage decision
C16_Witness ==
  /\ consent = "Inconsistent"
  /\ \E i \in 1..Len(replies) :
       /\ ~ReplyInvalid(replies[i]) /\ ReplyDelivered(replies[i])
       /\ hasAnswersNeedingTriage(ReplyHealthAnswers(replies[i]))
  /\ \E j \in 1..Len(events) : events[j].outcome = "Vaccinate"
  /\ screen = "false"
  /\ triage = "NotNeeded"

\* C17: the triage outcome is Needed exactly when the screen outcome is
\* NeedsTriage, NotNeeded exactly when it is false and Completed exactly when
\* it is any other value, DelayVaccination and DoNotVaccinate included
C17_TriageViewOfScreen ==
  /\ screen \in ScreenOutcome \cup {"false"}
  /\ triage = "Needed" <=> screen = "NeedsTriage"
  /\ triage = "NotNeeded" <=> screen = "false"
  /\ triage = "Completed" <=> screen \in ScreenOutcome \ {"NeedsTriage"}

\* a triage decision to delay the vaccination: triage is completed
C17_Witness ==
  /\ screen = "DelayVaccination"
  /\ triage = "Completed"

\* the consent outcome the claim gives for one delivered reply
SingleReplyOutcome(r) ==
  CASE r.decision = "Refused" /\ r.confirmed -> "FinalRefusal"
    [] r.decision = "Refused" /\ ~r.confirmed -> "Refused"
    [] r.decision = "OnlyAlternativeInjection" /\ alternativeVaccine
         -> "GivenForAlternativeInjection"
    [] r.decision = "OnlyAlternativeInjection" /\ ~alternativeVaccine -> "Given"
    [] r.decision \in {"Given", "OnlyMenACWY", "OnlyTdIPV"} -> "Given"
    [] r.decision = "Declined" -> "Declined"
    [] r.decision = "NoResponse" -> "NoResponse"

\* C18: one delivered non-invalid reply gives FinalRefusal when Refused and
\* confirmed, Refused when Refused and not confirmed, the outcome given for
\* the alternative when it consents to the alternative only and the programme
\* offers one, Given for any other consent, Declined when Declined and
\* NoResponse when NoResponse; several delivered replies of one decision give
\* what one reply of that decision gives
C18_SingleDecisionOutcome ==
  (Len(DeliveredReplies) >= 1 /\ ~DecisionsDiffer)
    => /\ \E i \in 1..Len(DeliveredReplies) :
            consent = SingleReplyOutcome(DeliveredReplies[i])
       /\ Len(DeliveredReplies) = 1 => consent = SingleReplyOutcome(DeliveredReplies[1])

\* two delivered replies consenting to the alternative only, on a programme
\* that offers one
C18_Witness ==
  /\ alternativeVaccine
  /\ Len(DeliveredReplies) = 2
  /\ \A i \in 1..Len(DeliveredReplies) :
       DeliveredReplies[i].decision = "OnlyAlternativeInjection"
  /\ consent = "GivenForAlternativeInjection"

\* C19: without a non-invalid reply the consent outcome is NoResponse; with
\* non-invalid replies none of which was delivered it is NoRequest, whatever
\* the replies decide
C19_NoResponseOrNoRequest ==
  /\ Len(WithoutInvalid(replies)) = 0 => consent = "NoResponse"
  /\ (Len(WithoutInvalid(replies)) >= 1 /\ Len(DeliveredReplies) = 0)
       => consent = "NoRequest"

\* two replies, Given and Refused, neither delivered
C19_Witness ==
  /\ Len(replies) = 2
  /\ \A i \in 1..Len(replies) : ~ReplyInvalid(replies[i]) /\ ~ReplyDelivered(replies[i])
  /\ \E i, j \in 1..Len(replies) :
       replies[i].decision = "Given" /\ replies[j].decision = "Refused"
  /\ consent = "NoRequest"

\* C20: the session status is Closed when the session is closed; else
\* Unplanned when it has no dates; else Completed when today's calendar date is
\* later than the calendar date of the last session date; else Planned, so
\* on the last session date itself it is Planned
C20_SessionStatus ==
  status = IF closed THEN "Closed"
           ELSE IF Len(dates) = 0 THEN "Unplanned"
           ELSE IF now.day > lastDate(dates).day THEN "Completed"
           ELSE "Planned"

\* C21: after any sequence of session create and update operations the
\* session's dates are chronologically sorted with no two dates on the same
\* day (or there are none), so the first date is the earliest and the last
\* date the latest
C21_DatesSortedNoDuplicates ==
  \A i, j \in 1..Len(dates) :
     i < j => dates[i].day < dates[j].day

\* C22: the record outcome is Record only if consent is given, triage is not
\* Needed, the screen outcome is not DoNotVaccinate, the report is not
\* Vaccinated and, in a session that uses registration, the registration
\* outcome is not Pending; when all but the last hold in a session that uses
\* registration and the registration outcome is Pending, the record outcome is
\* Register
C22_RecordGating ==
  LET ready == /\ consentGiven
               /\ triage # "Needed"
               /\ screen # "DoNotVaccinate"
               /\ report # "Vaccinated"
      pending == registration /\ registerOutcome = "Pending"
  IN /\ record = "Record" => (ready /\ ~pending)
     /\ (ready /\ pending) => record = "Register"

\* a patient with consent, registered as present in a session that uses
\* registration, is offered for recording
C22_Witness ==
  /\ registration
  /\ register = "Present"
  /\ consentGiven
  /\ record = "Record"

\* C23: submitting a new reply marks an existing reply invalid only when that
\* reply is the one the submitted reply replaces; a replacement that was
\* started and not submitted has no reply marked invalid by the submission of
\* another reply
C23_InvalidatesOnlyReplaced ==
  [][\A draft \in 0..MaxReplies, r \in OutcomeReplyInputs(Len(replies) + 1) :
       UpdateNew(r, draft)
         => \A i \in 1..Len(replies) :
              (~replies[i].invalid /\ replies'[i].invalid) => i = draft]_vars

\* C24: whether the user may record a vaccination for the patient session read
\* depends only on the user's role and originally permitted vaccine methods,
\* the session's protocols and the patient session's own state, not on the
\* patient sessions read before
C24_CanRecordIndependentOfHistory ==
  [][\A view \in Views :
       Read(view)
         => options'[1].canRecord
              = canRecord(readVaccineMethods(permitted, account.role, view), view)]_vars

\* C25: registering a patient as Absent when the report outcome is
\* NoOutcomeYet completes without error and leaves the patient session with
\* registration outcome Absent, session outcome Absent and report outcome
\* CouldNotVaccinate, whatever the programme and the consent
C25_AbsentRegistration ==
  [][(registration /\ report = "NoOutcomeYet" /\ Register("Absent"))
       => /\ ~RegisterThrows("Absent")
          /\ registerOutcome' = "Absent"
          /\ sessionOutcome' = "Absent"
          /\ report' = "CouldNotVaccinate"]_vars

\* C26: after consent is withdrawn on a reply that gives consent, that reply
\* is invalid and a Refused reply from the same respondent has been added,
\* and consent is no longer given unless another delivered reply that is not
\* invalid, from the child, gives consent
C26_WithdrawnConsentNotGiven ==
  [][\A i \in 1..Len(replies), alreadyGiven \in BOOLEAN :
       (ReplyGiven(replies[i]) /\ ~ReplyInvalid(replies[i]) /\ Withdraw(i, alreadyGiven))
         => /\ ReplyInvalid(replies'[i])
            /\ replies'[Len(replies')].decision = "Refused"
            /\ replies'[Len(replies')].parent = replies[i].parent
            /\ ConsentGiven(replies', alternativeVaccine)
                 => \E j \in 1..Len(replies) :
                      /\ j # i
                      /\ IsChildReply(replies[j])
                      /\ ReplyGiven(replies[j])
                      /\ ReplyDelivered(replies[j])
                      /\ ~ReplyInvalid(replies[j])]_vars

\* C27: the report outcome is Vaccinated exactly when the session outcome is
\* a given vaccination outcome (Vaccinated, PartVaccinated, AlreadyVaccinated),
\* NoOutcomeYet exactly when the session outcome is NoOutcomeYet, and
\* CouldNotVaccinate otherwise
C27_SessionAndReportAgree ==
  /\ report = "Vaccinated"
       <=> sessionOutcome \in {"Vaccinated", "PartVaccinated", "AlreadyVaccinated"}
  /\ report = "NoOutcomeYet" <=> sessionOutcome = "NoOutcomeYet"
  /\ report \in {"Vaccinated", "NoOutcomeYet", "CouldNotVaccinate"}

\* a vaccination given after one that was not: both outcomes follow the last
C27_Witness ==
  /\ Len(vaccinations) = 2
  /\ ~VaccinationGiven(vaccinations[1])
  /\ sessionOutcome = "Vaccinated"
  /\ report = "Vaccinated"

\* C28: for a programme with an alternative vaccine and consent given, the
\* vaccine is the standard one when the criteria is IntranasalOnly and the
\* alternative one when the criteria is AlternativeInjectionOnly, and the
\* alternative vaccine is not offered as an extra option when the criteria is
\* IntranasalOnly
C28_VaccineAgreesWithCriteria ==
  (alternativeVaccine /\ consentGiven)
    => /\ vaccineCriteria = "IntranasalOnly" => vaccine = "standard"
       /\ vaccineCriteria = "AlternativeInjectionOnly" => vaccine = "alternative"
       /\ vaccineCriteria = "IntranasalOnly" => ~canRecordAlternativeVaccine

\* the replies with the creation times of replies i and j exchanged
SwapCreatedAt(rs, i, j) ==
  [rs EXCEPT ![i].createdAt = rs[j].createdAt, ![j].createdAt = rs[i].createdAt]

\* C29: the consent outcome depends only on which delivered replies that are
\* not invalid there are, not on the order of their creation times:
\* exchanging the creation times of two replies leaves it as it is
C29_ConsentOrderIndependent ==
  \A i, j \in 1..Len(replies) :
     getConsentOutcome(SwapCreatedAt(replies, i, j), alternativeVaccine) = consent

\* C30: adding a delivered reply with decision NoResponse to replies whose
\* consent outcome is Given, Refused, FinalRefusal, Declined or given for the
\* alternative leaves the consent outcome as it is
C30_NoResponseNeverConflicts ==
  [][\A r \in ConsentReplyInputs(Len(replies) + 1) :
       (/\ r.decision = "NoResponse"
        /\ ReplyDelivered(r)
        /\ consent \in {"Given", "Refused", "FinalRefusal", "Declined",
                         "GivenForAlternativeInjection"}
        /\ SubmitReply(r, 0, "NoOutcome", 1))
         => consent' = consent]_vars

====
